---- MODULE Spec2Model ----
(***************************************************************************)
(* Model of the wafer-defect-review batch pipelines:                       *)
(*   src/src/build_all_tables.py  (build_table1 .. build_table7)           *)
(*   src/src/make_figures.py      (make_figure1 .. make_figure3)           *)
(*                                                                         *)
(* Text is a sequence of one-character strings.  A number is an exact      *)
(* decimal m * 10^(-s); binary floating-point rounding is not modelled.    *)
(***************************************************************************)
EXTENDS Integers, Sequences, FiniteSets, TLC

\* ------------------------------------------------------------------------
\* Bounds of the model
\* ------------------------------------------------------------------------
\* longest table drawn for the table under test
MaxRows == 3
\* longest free text drawn character by character for a compute-cost cell
MaxLen == 2
\* how many times the table script is started
MaxRuns == 2
\* how many I/O failures the environment injects in one behaviour
MaxFailures == 1
\* how many functions are called on their own in one behaviour
MaxCalls == 2

\* ------------------------------------------------------------------------
\* Text
\* ------------------------------------------------------------------------
\* the function f with all its values computed (f itself, evaluated once)
Eager(f) == LET v == f IN IF v = <<>> THEN <<>> ELSE v

Digits == <<"0", "1", "2", "3", "4", "5", "6", "7", "8", "9">>

DigitSet == {Digits[i] : i \in 1..Len(Digits)}

IsDigit(c) == c \in DigitSet

DigitVals == Eager([c \in DigitSet |-> (CHOOSE i \in 1..Len(Digits) : Digits[i] = c) - 1])

DigitVal(c) == DigitVals[c]

\* the characters that occur in the model's texts, in code-point order
CharOrder ==
  <<" ", "%", ",", ".", "0", "1", "2", "3", "4", "5", "6", "7", "8", "9",
    "A", "B", "C", "E", "G", "M", "N", "X", "\\", "a", "b", "c", "d", "e",
    "g", "m", "n", "r", "s", "x">>

Ords ==
  Eager([c \in {CharOrder[i] : i \in 1..Len(CharOrder)} |->
           CHOOSE i \in 1..Len(CharOrder) : CharOrder[i] = c])

Ord(c) == Ords[c]

\* Python's str < str: lexicographic by code point
RECURSIVE StrLess(_, _)
StrLess(a, b) ==
  IF b = <<>> THEN FALSE
  ELSE IF a = <<>> THEN TRUE
  ELSE IF Ord(Head(a)) # Ord(Head(b)) THEN Ord(Head(a)) < Ord(Head(b))
  ELSE StrLess(Tail(a), Tail(b))

RECURSIVE LStrip(_)
LStrip(t) == IF t # <<>> /\ Head(t) = " " THEN LStrip(Tail(t)) ELSE t

RECURSIVE RStrip(_)
RStrip(t) ==
  IF t # <<>> /\ t[Len(t)] = " " THEN RStrip(SubSeq(t, 1, Len(t) - 1)) ELSE t

\* str.strip()
Strip(t) == RStrip(LStrip(t))

UpperChar(c) ==
  CASE c = "a" -> "A" [] c = "b" -> "B" [] c = "c" -> "C" [] c = "d" -> "D"
    [] c = "e" -> "E" [] c = "g" -> "G" [] c = "m" -> "M" [] c = "n" -> "N"
    [] c = "r" -> "R" [] c = "s" -> "S" [] c = "x" -> "X" [] OTHER -> c

\* str.upper()
Upper(t) == Eager([i \in 1..Len(t) |-> UpperChar(t[i])])

\* str.endswith(c) for a one-character suffix
EndsWith(t, c) == t # <<>> /\ t[Len(t)] = c

\* s[:-1]
DropLast(t) == IF t = <<>> THEN <<>> ELSE SubSeq(t, 1, Len(t) - 1)

\* str.replace(c, "")
RECURSIVE RemoveChar(_, _)
RemoveChar(t, c) ==
  IF t = <<>> THEN <<>>
  ELSE IF Head(t) = c THEN RemoveChar(Tail(t), c)
  ELSE <<Head(t)>> \o RemoveChar(Tail(t), c)

\* the decimal digits of a natural number
RECURSIVE NatStr(_)
NatStr(n) ==
  IF n < 10 THEN <<Digits[n + 1]>> ELSE NatStr(n \div 10) \o <<Digits[(n % 10) + 1]>>

RECURSIVE Pow10(_)
Pow10(k) == IF k = 0 THEN 1 ELSE 10 * Pow10(k - 1)

\* ------------------------------------------------------------------------
\* Cell values: text, a number m * 10^(-s) (f: held as a float), or NaN
\* ------------------------------------------------------------------------
Str(t) == [k |-> "str", txt |-> t, m |-> 0, s |-> 0, f |-> FALSE]

RECURSIVE NormM(_, _)
NormM(m, s) == IF s > 0 /\ m % 10 = 0 THEN NormM(m \div 10, s - 1) ELSE m

RECURSIVE NormS(_, _)
NormS(m, s) == IF s > 0 /\ m % 10 = 0 THEN NormS(m \div 10, s - 1) ELSE s

Num(m, s, f) ==
  IF s = 0 THEN [k |-> "num", txt |-> <<>>, m |-> m, s |-> 0, f |-> f]
  ELSE [k |-> "num", txt |-> <<>>, m |-> NormM(m, s), s |-> NormS(m, s), f |-> f]

NaN == [k |-> "nan", txt |-> <<>>, m |-> 0, s |-> 0, f |-> TRUE]

\* pd.isna
IsNa(c) == c.k = "nan"

IsNum(c) == c.k = "num"

\* a < b on two numbers
NumLess(a, b) == a.m * Pow10(b.s) < b.m * Pow10(a.s)

\* the same numeric value, whether held as an int or as a float
NumEq(a, b) == IsNum(a) /\ IsNum(b) /\ a.m = b.m /\ a.s = b.s

\* x * 1.0 and x * (1 / 1000.0): the product is a float, NaN stays NaN
MulFactor(c, shift) == IF IsNum(c) THEN Num(c.m, c.s + shift, TRUE) ELSE NaN

\* ------------------------------------------------------------------------
\* Parsing and printing numbers
\* ------------------------------------------------------------------------
RECURSIVE DigitsVal(_)
DigitsVal(t) ==
  IF t = <<>> THEN 0 ELSE 10 * DigitsVal(DropLast(t)) + DigitVal(t[Len(t)])

\* the position of the first point, 0 when the text has none
RECURSIVE DotFrom(_, _)
DotFrom(t, i) ==
  IF i > Len(t) THEN 0 ELSE IF t[i] = "." THEN i ELSE DotFrom(t, i + 1)

DotAt(t) == DotFrom(t, 1)

IntPart(t) == LET d == DotAt(t) IN IF d = 0 THEN t ELSE SubSeq(t, 1, d - 1)

FracPart(t) == LET d == DotAt(t) IN IF d = 0 THEN <<>> ELSE SubSeq(t, d + 1, Len(t))

\* the text is an unsigned decimal literal: digits, at most one point
IsNumeric(t) ==
  LET d == DotAt(t)
  IN /\ \A i \in 1..Len(t) : i = d \/ IsDigit(t[i])
     /\ Len(t) > (IF d = 0 THEN 0 ELSE 1)

\* pd.to_numeric(text, errors="coerce") of one text
ParseNum(t) ==
  IF IsNumeric(t)
  THEN LET frac == FracPart(t)
       IN Num(DigitsVal(IntPart(t) \o frac), Len(frac), DotAt(t) # 0)
  ELSE NaN

\* pd.to_numeric(value, errors="coerce") of one cell
to_numeric(c) == IF c.k = "str" THEN ParseNum(c.txt) ELSE c

\* the fraction digits of m * 10^(-s), s > 0, zero padded to s places
RECURSIVE PadLeft(_, _)
PadLeft(t, n) == IF Len(t) >= n THEN t ELSE PadLeft(<<"0">> \o t, n)

\* str(value): "nan", an int as its digits, a float with a fraction part
ToStr(c) ==
  IF c.k = "str" THEN c.txt
  ELSE IF c.k = "nan" THEN <<"n", "a", "n">>
  ELSE IF ~c.f THEN NatStr(c.m)
  ELSE IF c.s = 0 THEN NatStr(c.m) \o <<".", "0">>
  ELSE NatStr(c.m \div Pow10(c.s)) \o <<".">> \o PadLeft(NatStr(c.m % Pow10(c.s)), c.s)

\* ------------------------------------------------------------------------
\* Files and data frames
\* ------------------------------------------------------------------------
\* A raw CSV file: a header and rows of texts (an empty text is an empty
\* field).  A data frame: the columns in order and the rows, each with its
\* index label and its cells.
RAW == "data/raw"

OUT == "output/tables"

ColumnTexts(file, col) == Eager([i \in 1..Len(file.rows) |-> file.rows[i][col]])

\* read_csv infers a numeric column when every non-empty field is a number
NumericColumn(texts) == \A i \in 1..Len(texts) : texts[i] = <<>> \/ IsNumeric(texts[i])

\* a numeric column is held as floats as soon as one cell is a float or NaN
FloatColumn(cells) == \E i \in 1..Len(cells) : cells[i].k = "nan" \/ cells[i].f

AsDtype(cells) ==
  IF FloatColumn(cells)
  THEN Eager([i \in 1..Len(cells) |->
                IF IsNum(cells[i]) THEN Num(cells[i].m, cells[i].s, TRUE) ELSE cells[i]])
  ELSE cells

ReadColumn(texts) ==
  IF NumericColumn(texts)
  THEN AsDtype(Eager([i \in 1..Len(texts) |->
                        IF texts[i] = <<>> THEN NaN ELSE ParseNum(texts[i])]))
  ELSE Eager([i \in 1..Len(texts) |-> IF texts[i] = <<>> THEN NaN ELSE Str(texts[i])])

ColSet(cols) == {cols[i] : i \in 1..Len(cols)}

\* pd.read_csv(path): the rows in file order, index labels 0 .. n-1
read_csv(file) ==
  LET parsed == Eager([c \in ColSet(file.cols) |-> ReadColumn(ColumnTexts(file, c))])
  IN [cols |-> file.cols,
      rows |-> Eager([i \in 1..Len(file.rows) |->
                        [idx |-> i - 1,
                         v |-> Eager([c \in ColSet(file.cols) |-> parsed[c][i]])]])]

Column(df, col) == [i \in 1..Len(df.rows) |-> df.rows[i].v[col]]

\* df[col] = cells: replaces the column, or appends it when it is new
SetColumn(df, col, cells) ==
  [cols |-> IF col \in ColSet(df.cols) THEN df.cols ELSE Append(df.cols, col),
   rows |-> Eager([i \in 1..Len(df.rows) |->
                     [idx |-> df.rows[i].idx,
                      v |-> Eager([c \in ColSet(df.cols) \cup {col} |->
                                     IF c = col THEN cells[i] ELSE df.rows[i].v[c]])]])]

\* CoerceColumn with the fault of discarding the rows that fail to parse
\* (a dropna after the coercion)
CoerceColumn_dropna(df, col) ==
  LET full == SetColumn(df, col,
                        AsDtype(Eager([i \in 1..Len(df.rows) |->
                                         to_numeric(df.rows[i].v[col])])))
  IN [cols |-> full.cols, rows |-> SelectSeq(full.rows, LAMBDA r : ~IsNa(r.v[col]))]

\* df[col] = pd.to_numeric(df[col], errors="coerce")
CoerceColumn(df, col) ==
  SetColumn(df, col,
            AsDtype(Eager([i \in 1..Len(df.rows) |-> to_numeric(df.rows[i].v[col])])))

\* df.drop(columns=[col])
DropColumn(df, col) ==
  [cols |-> SelectSeq(df.cols, LAMBDA c : c # col),
   rows |-> Eager([i \in 1..Len(df.rows) |->
                     [idx |-> df.rows[i].idx,
                      v |-> Eager([c \in ColSet(df.cols) \ {col} |-> df.rows[i].v[c]])]])]

\* a < b on two cells of one column (texts by code point, numbers by value)
CellLess(a, b) ==
  IF a.k = "str" /\ b.k = "str" THEN StrLess(a.txt, b.txt)
  ELSE IF IsNum(a) /\ IsNum(b) THEN NumLess(a, b)
  ELSE FALSE

\* sort_values(by, ascending): a goes strictly before b.  On every key a
\* missing value goes last (na_position="last"), whatever the direction.
RECURSIVE RowBefore(_, _, _, _)
RowBefore(a, b, by, ascending) ==
  IF by = <<>> THEN FALSE
  ELSE LET ca == a.v[Head(by)]
           cb == b.v[Head(by)]
       IN IF IsNa(ca) /\ IsNa(cb)
          THEN RowBefore(a, b, Tail(by), Tail(ascending))
          ELSE IF IsNa(ca) THEN FALSE
          ELSE IF IsNa(cb) THEN TRUE
          ELSE IF CellLess(ca, cb) THEN Head(ascending)
          ELSE IF CellLess(cb, ca) THEN ~Head(ascending)
          ELSE RowBefore(a, b, Tail(by), Tail(ascending))

\* the row goes behind every row it is not strictly before (stable)
RECURSIVE InsertRow(_, _, _, _)
InsertRow(r, sorted, by, ascending) ==
  IF sorted = <<>> THEN <<r>>
  ELSE IF RowBefore(r, sorted[Len(sorted)], by, ascending)
       THEN Append(InsertRow(r, DropLast(sorted), by, ascending), sorted[Len(sorted)])
       ELSE Append(sorted, r)

RECURSIVE SortRows(_, _, _)
SortRows(rows, by, ascending) ==
  IF rows = <<>> THEN <<>>
  ELSE InsertRow(rows[Len(rows)], SortRows(DropLast(rows), by, ascending), by, ascending)

\* df.sort_values(by, ascending=...): rows equal on every key keep their order
sort_values(df, by, ascending) ==
  [cols |-> df.cols, rows |-> SortRows(df.rows, by, ascending)]

\* ------------------------------------------------------------------------
\* Series.str.extract with a one-group pattern
\* ------------------------------------------------------------------------
\* A pattern is a sequence of character classes.  The pattern the code
\* passes, r"(\\d{4})", is a backslash followed by four letters d.
EraPattern == <<{"\\"}, {"d"}, {"d"}, {"d"}, {"d"}>>

MatchesAt(t, pat, i) ==
  /\ i + Len(pat) - 1 <= Len(t)
  /\ \A j \in 1..Len(pat) : t[i + j - 1] \in pat[j]

HasMatch(t, pat) == \E i \in 1..Len(t) : MatchesAt(t, pat, i)

FirstMatch(t, pat) ==
  CHOOSE i \in 1..Len(t) : MatchesAt(t, pat, i) /\ \A j \in 1..(i - 1) : ~MatchesAt(t, pat, j)

\* the first match of the group, NaN when the text has none
extract(t, pat) ==
  IF HasMatch(t, pat)
  THEN Str(SubSeq(t, FirstMatch(t, pat), FirstMatch(t, pat) + Len(pat) - 1))
  ELSE NaN

\* .astype(float) raises on a text that is not a number
AstypeFloatRaises(cells) ==
  \E i \in 1..Len(cells) : cells[i].k = "str" /\ ~IsNumeric(cells[i].txt)

AstypeFloat(cells) ==
  Eager([i \in 1..Len(cells) |->
           IF cells[i].k = "str" THEN MulFactor(ParseNum(cells[i].txt), 0)
           ELSE MulFactor(cells[i], 0)])

\* df["Era"].astype(str).str.extract(r"(\\d{4})")
EraExtract(df) ==
  Eager([i \in 1..Len(df.rows) |-> extract(ToStr(df.rows[i].v["Era"]), EraPattern)])

\* ------------------------------------------------------------------------
\* The seven table builds: the frame each hands to save_table
\* ------------------------------------------------------------------------
TableIds == 1..7

TableName(k) ==
  CASE k = 1 -> "table1_model_performance"
    [] k = 2 -> "table2_hardware_speeds"
    [] k = 3 -> "table3_datasets"
    [] k = 4 -> "table4_challenges"
    [] k = 5 -> "table5_future_research"
    [] k = 6 -> "table6_implementation_phases"
    [] k = 7 -> "table7_evolution_technologies"
    [] OTHER -> "table8_detection_evolution"

\* build_table1 with the fault ascending=[True, True]
build_table1_ascending(df) ==
  sort_values(CoerceColumn(df, "Accuracy (%)"),
              <<"Dataset", "Accuracy (%)">>, <<TRUE, TRUE>>)

build_table1(df) ==
  sort_values(CoerceColumn(df, "Accuracy (%)"),
              <<"Dataset", "Accuracy (%)">>, <<TRUE, FALSE>>)

build_table2(df) ==
  sort_values(CoerceColumn(df, "Inference Speed (img/s)"),
              <<"Hardware", "Inference Speed (img/s)">>, <<TRUE, FALSE>>)

build_table3(df) == sort_values(CoerceColumn(df, "Year"), <<"Year">>, <<TRUE>>)

build_table4(df) == df

build_table5(df) == df

build_table6(df) == df

build_table7(df) ==
  DropColumn(sort_values(SetColumn(df, "era_numeric", AstypeFloat(EraExtract(df))),
                         <<"era_numeric">>, <<TRUE>>),
             "era_numeric")

\* build_table7 raises when the extracted text is not a number
build_table7_raises(df) == AstypeFloatRaises(EraExtract(df))

BuildFrame(k, df) ==
  CASE k = 1 -> build_table1(df)
    [] k = 2 -> build_table2(df)
    [] k = 3 -> build_table3(df)
    [] k = 4 -> build_table4(df)
    [] k = 5 -> build_table5(df)
    [] k = 6 -> build_table6(df)
    [] OTHER -> build_table7(df)

BuildRaises(k, df) == k = 7 /\ build_table7_raises(df)

\* ------------------------------------------------------------------------
\* Output files
\* ------------------------------------------------------------------------
\* A written file: mtime is the run that wrote it last (0: no such file).
File(mtime, cols, rows) == [mtime |-> mtime, cols |-> cols, rows |-> rows]

Absent == File(0, <<>>, <<>>)

Content(file) == [cols |-> file.cols, rows |-> file.rows]

\* df.to_csv(path, index=False): header and cells in column order, no index
to_csv(df, now) == File(now, df.cols, Eager([i \in 1..Len(df.rows) |-> df.rows[i].v]))

\* escape=True: the characters LaTeX reserves get a backslash
RECURSIVE Escape(_)
Escape(t) ==
  IF t = <<>> THEN <<>>
  ELSE IF Head(t) \in {"%", "\\"} THEN <<"\\", Head(t)>> \o Escape(Tail(t))
  ELSE <<Head(t)>> \o Escape(Tail(t))

\* df.to_latex(index=False, escape=True): one line of texts per row
to_latex(df, now) ==
  File(now, df.cols,
       Eager([i \in 1..Len(df.rows) |->
                Eager([j \in 1..Len(df.cols) |-> Escape(ToStr(df.rows[i].v[df.cols[j]]))])]))

\* open(tex_path, "w") succeeded and rendering raised: an empty file is left
EmptyFile(now) == File(now, <<>>, <<>>)

\* WriteCsv with the fault of opening the file in append mode
WriteCsv_append(files, k, df, now) ==
  [files EXCEPT ![k] = File(now, df.cols, files[k].rows \o to_csv(df, now).rows)]

\* WriteCsv with the fault of one file name shared by all the tables
WriteCsv_shared(files, k, df, now) == [files EXCEPT ![1] = to_csv(df, now)]

\* save_table line 15: only <name>.csv is replaced, whatever it held
WriteCsv(files, k, df, now) == [files EXCEPT ![k] = to_csv(df, now)]

\* save_table lines 19-20: only <name>.tex is replaced
WriteTex(files, k, df, now) == [files EXCEPT ![k] = to_latex(df, now)]

\* the two ways the LaTeX write fails: open() raises, or to_latex() raises
TexFailures == {"open", "render"}

FailTex(files, k, how, now) ==
  IF how = "open" THEN files ELSE [files EXCEPT ![k] = EmptyFile(now)]

\* print(f"Could not write LaTeX for {name}: {e}")
CouldNot(k) == [msg |-> "Could not write LaTeX for", name |-> TableName(k)]

\* print(f"Saved {name} -> {csv_path}")
Saved(k) == [msg |-> "Saved", name |-> TableName(k)]

\* ------------------------------------------------------------------------
\* Figures
\* ------------------------------------------------------------------------
FigureIds == 1..3

FigureName(n) ==
  CASE n = 1 -> "figure1_accuracy_vs_cost"
    [] n = 2 -> "figure2_timeline_evolution"
    [] OTHER -> "figure3_dataset_comparison"

\* the raw table a figure reads
FigureInput(n) == CASE n = 1 -> 1 [] n = 2 -> 8 [] OTHER -> 3

\* to_flops_b lines 32-40: the magnitude text left after the unit letter
FlopsMagnitude(s) ==
  IF EndsWith(s, "B") THEN DropLast(s)
  ELSE IF EndsWith(s, "G") THEN DropLast(s)
  ELSE IF EndsWith(s, "M") THEN DropLast(s)
  ELSE s

\* FlopsShift with the fault of taking "M" for a millionth
FlopsShift_mega(s) ==
  IF EndsWith(s, "B") THEN 0
  ELSE IF EndsWith(s, "G") THEN 0
  ELSE IF EndsWith(s, "M") THEN 6
  ELSE 0

\* to_flops_b lines 33-40: factor 1.0, or 1 / 1000.0 after "M", as the
\* number of decimal places the value moves
FlopsShift(s) ==
  IF EndsWith(s, "B") THEN 0
  ELSE IF EndsWith(s, "G") THEN 0
  ELSE IF EndsWith(s, "M") THEN 3
  ELSE 0

\* to_flops_b with the fault of refusing a value that has no unit letter
to_flops_b_strict(val) ==
  IF IsNa(val) THEN NaN
  ELSE LET s == Upper(Strip(ToStr(val)))
       IN IF FlopsMagnitude(s) = s THEN NaN
          ELSE MulFactor(ParseNum(FlopsMagnitude(s)), 0)

to_flops_b(val) ==
  IF IsNa(val) THEN NaN
  ELSE LET s == Upper(Strip(ToStr(val)))
       IN MulFactor(ParseNum(FlopsMagnitude(s)), FlopsShift(s))

\* total_samples with the fault of leaving the thousands separators in
total_samples_keep_commas(val) == ParseNum(ToStr(val))

\* make_figure3 line 131, one cell
total_samples(val) == ParseNum(RemoveChar(ToStr(val), ","))

Point(x, y, label, color) == [x |-> x, y |-> y, label |-> label, color |-> color]

make_figure1(df0) ==
  LET df == CoerceColumn(df0, "Accuracy (%)")
  IN [i \in 1..Len(df.rows) |->
        Point(to_flops_b(df.rows[i].v["FLOPs"]), df.rows[i].v["Accuracy (%)"],
              df.rows[i].v["Model"], "")]

palette(category) ==
  CASE category = Str(<<"M", "a", "n", "u", "a", "l">>) -> "#56b2c9"
    [] category = Str(<<"O", "p", "t", "i", "c", "a", "l">>) -> "#f3c178"
    [] category = Str(<<"E", "-", "b", "e", "a", "m">>) -> "#f38181"
    [] category = Str(<<"D", "i", "g", "i", "t", "a", "l">>) -> "#7cb7c6"
    [] category = Str(<<"M", "L">>) -> "#f6d55c"
    [] category = Str(<<"D", "L">>) -> "#d64255"
    [] category = Str(<<"A", "d", "v", "a", "n", "c", "e", "d", " ", "D", "L">>) -> "#c44c9d"
    [] category = Str(<<"T", "r", "a", "n", "s", "f", "o", "r", "m", "e", "r", "s">>) -> "#7a4f9c"
    [] category = Str(<<"M", "o", "d", "e", "r", "n", " ", "A", "I">>) -> "#4f7d5f"
    [] OTHER -> "#777777"

make_figure2(df0) ==
  LET df == sort_values(
              CoerceColumn(CoerceColumn(CoerceColumn(df0, "year"), "accuracy_pct"),
                           "defect_size_nm"),
              <<"year">>, <<TRUE>>)
  IN [i \in 1..Len(df.rows) |->
        Point(df.rows[i].v["year"], df.rows[i].v["accuracy_pct"],
              df.rows[i].v["label"], palette(df.rows[i].v["category"]))]

make_figure3(df0) ==
  LET samples == AsDtype(Eager([i \in 1..Len(df0.rows) |->
                                  total_samples(df0.rows[i].v["Total Samples"])]))
      df == CoerceColumn(SetColumn(df0, "Total Samples", samples), "Classes")
  IN [i \in 1..Len(df.rows) |->
        Point(df.rows[i].v["Total Samples"], df.rows[i].v["Classes"],
              df.rows[i].v["Dataset"], "")]

FigurePoints(n, df) ==
  CASE n = 1 -> make_figure1(df)
    [] n = 2 -> make_figure2(df)
    [] OTHER -> make_figure3(df)

\* plt.savefig(out, dpi=300): only the figure's own PNG is replaced
WritePng(files, n, points, now) == [files EXCEPT ![n] = File(now, <<>>, points)]

\* ------------------------------------------------------------------------
\* Raw inputs
\* ------------------------------------------------------------------------
RawIds == 1..8

RawFile(cols, rows) == [exists |-> TRUE, cols |-> cols, rows |-> rows]

NoFile == [exists |-> FALSE, cols |-> <<>>, rows |-> <<>>]

Cols1 == <<"Model", "Accuracy (%)", "FLOPs", "Dataset">>

Cols2 == <<"Hardware", "Inference Speed (img/s)">>

Cols3 == <<"Dataset", "Year", "Total Samples", "Classes">>

Cols4 == <<"Item">>

Cols7 == <<"Era", "Technology">>

Cols8 == <<"year", "accuracy_pct", "defect_size_nm", "category", "label">>

Row1(model, acc, flops, dataset) ==
  ("Model" :> model) @@ ("Accuracy (%)" :> acc) @@ ("FLOPs" :> flops)
    @@ ("Dataset" :> dataset)

Row2(hardware, speed) ==
  ("Hardware" :> hardware) @@ ("Inference Speed (img/s)" :> speed)

Row3(dataset, year, samples, classes) ==
  ("Dataset" :> dataset) @@ ("Year" :> year) @@ ("Total Samples" :> samples)
    @@ ("Classes" :> classes)

Row4(item) == ("Item" :> item)

Row7(era, technology) == ("Era" :> era) @@ ("Technology" :> technology)

Row8(year, acc, size, category, label) ==
  ("year" :> year) @@ ("accuracy_pct" :> acc) @@ ("defect_size_nm" :> size)
    @@ ("category" :> category) @@ ("label" :> label)

\* one small file per raw table, its rows out of their sorted order
BaseRaw(k) ==
  CASE k = 1 -> RawFile(Cols1,
                  <<Row1(<<"a">>, <<"9">>, <<"4", ".", "1", "B">>, <<"B">>),
                    Row1(<<"b">>, <<"9", "5", ".", "5">>, <<"1", "2", "0", "0", "M">>, <<"A">>)>>)
    [] k = 2 -> RawFile(Cols2,
                  <<Row2(<<"B">>, <<"9">>), Row2(<<"A">>, <<"9", "5", ".", "5">>)>>)
    [] k = 3 -> RawFile(Cols3,
                  <<Row3(<<"A">>, <<"2", "0", "1", "5">>, <<"1", "2", ",", "3", "4", "5">>, <<"9">>),
                    Row3(<<"B">>, <<"2", "0", "0", "8">>, <<"8", "1", "1">>, <<"x">>)>>)
    [] k \in {4, 5, 6} -> RawFile(Cols4, <<Row4(<<"b">>), Row4(<<"a", "%">>)>>)
    [] k = 7 -> RawFile(Cols7,
                  <<Row7(<<"2", "0", "1", "0", "s">>, <<"b">>),
                    Row7(<<"1", "9", "9", "0", "s">>, <<"a">>)>>)
    [] OTHER -> RawFile(Cols8,
                  <<Row8(<<"2", "0", "2", "0">>, <<"9", "5", ".", "5">>, <<"9">>, <<"D", "L">>, <<"b">>),
                    Row8(<<"1", "9", "9", "0">>, <<"9">>, <<"x">>, <<"X">>, <<"a">>)>>)

Reverse(q) == [i \in 1..Len(q) |-> q[Len(q) + 1 - i]]

Flipped(file) == [file EXCEPT !.rows = Reverse(file.rows)]

\* the raw directories the functions are called on in any order: the base
\* files, and the same files in the other row order with an Era that makes
\* build_table7 raise and with one file missing
AnyDirs ==
  {[k \in RawIds |-> BaseRaw(k)]}
  \cup
  {[k \in RawIds |->
      CASE k = 7 -> RawFile(Cols7, <<Row7(<<"\\", "d", "d", "d", "d">>, <<"c">>)>>)
        [] k = 4 -> NoFile
        [] OTHER -> Flipped(BaseRaw(k))]}

\* the raw directories the table script is started on: those, one where
\* only build_table7 raises, and two more with a file missing
RawDirs ==
  AnyDirs
  \cup
  {[k \in RawIds |-> IF k = 7
                     THEN RawFile(Cols7, <<Row7(<<"\\", "d", "d", "d", "d">>, <<"c">>)>>)
                     ELSE BaseRaw(k)]}
  \cup
  {[k \in RawIds |-> IF k = missing THEN NoFile ELSE BaseRaw(k)] : missing \in {1, 7}}

\* every sequence over S of length at most n
SeqUpTo(S, n) == UNION {[1..m -> S] : m \in 0..n}

AccTexts == {<<"9">>, <<"9", "5", ".", "5">>, <<"x">>}

DatasetTexts == {<<"A">>, <<"B">>, <<>>}

YearTexts == {<<"2", "0", "1", "5">>, <<"2", "0", "0", "8">>, <<"x">>, <<>>}

EraTexts ==
  {<<"2", "0", "1", "0", "s">>, <<"1", "9", "9", "0", "s">>, <<"1", "9", "8", "0">>,
   <<"e", "r", "a">>, <<"\\", "d", "d", "d", "d">>}

FlopsAlphabet == {"1", "7", ".", "B", "G", "M", "m", "x"}

FlopsExamples ==
  {<<"4", ".", "1", "B">>, <<"1", "2", "0", "0", "M">>, <<"7", "G">>,
   <<" ", "7", "g", " ">>, <<"4", ".", "1">>, <<"4", ",", "1", "B">>,
   <<"1", ".", "2", ".", "3", "B">>, <<"1", "M", "B">>}

FlopsTexts == SeqUpTo(FlopsAlphabet, MaxLen) \cup FlopsExamples

SampleAlphabet == {"1", "2", ",", ".", "x"}

SampleExamples ==
  {<<"1", "2", ",", "3", "4", "5">>, <<"8", "1", "1", "4", "5", "7">>,
   <<"1", "2", "k">>, <<"1", ",", "2", "3", "4", ".", "5">>}

SampleTexts == SeqUpTo(SampleAlphabet, MaxLen) \cup SampleExamples

\* the files drawn for the raw table k when the function fn is under test
RichFiles(fn, k) ==
  CASE fn = "build_table1" ->
         {RawFile(Cols1, rows) :
            rows \in SeqUpTo({Row1(<<"m">>, a, <<"7", "G">>, d) :
                                a \in AccTexts, d \in DatasetTexts}, MaxRows)}
    [] fn = "build_table2" ->
         {RawFile(Cols2, rows) :
            rows \in SeqUpTo({Row2(h, v) : h \in {<<"A">>, <<"B">>},
                                           v \in {<<"9">>, <<"9", "5", ".", "5">>, <<>>}},
                             MaxRows)}
    [] fn = "build_table3" ->
         {RawFile(Cols3, rows) :
            rows \in SeqUpTo({Row3(<<"A">>, y, <<"8", "1", "1">>, <<"9">>) : y \in YearTexts},
                             MaxRows)}
    [] fn \in {"build_table4", "build_table5", "build_table6"} ->
         {RawFile(Cols4, rows) :
            rows \in SeqUpTo({Row4(<<"a">>), Row4(<<"b">>)}, MaxRows)}
    [] fn = "build_table7" ->
         {RawFile(Cols7, rows) :
            rows \in SeqUpTo({Row7(e, <<"t">>) : e \in EraTexts}, MaxRows)}
    [] fn = "make_figure1" ->
         {RawFile(Cols1, <<Row1(<<"m">>, <<"9">>, t, <<"A">>)>> \o more) :
            t \in FlopsTexts,
            more \in SeqUpTo({Row1(<<"n">>, <<"x">>, u, <<"A">>) : u \in {<<>>, <<"7">>}}, 1)}
    [] fn = "make_figure2" ->
         {RawFile(Cols8, rows) :
            rows \in SeqUpTo({Row8(y, <<"9">>, <<"9">>, c, <<"a">>) :
                                y \in {<<"2", "0", "2", "0">>, <<"1", "9", "9", "0">>, <<>>},
                                c \in {<<"M", "L">>, <<"X">>}}, MaxRows)}
    [] OTHER ->
         {RawFile(Cols3, <<Row3(<<"A">>, <<"2", "0", "1", "5">>, t, <<"9">>)>> \o more) :
            t \in SampleTexts,
            more \in SeqUpTo({Row3(<<"B">>, <<"x">>, u, <<>>) : u \in {<<>>, <<"7">>}}, 1)}

\* ------------------------------------------------------------------------
\* State
\* ------------------------------------------------------------------------
VARIABLES
  raw,      \* data/raw: the input file of each raw table
  csv,      \* output/tables/<name>.csv of each table
  tex,      \* output/tables/<name>.tex of each table
  png,      \* output/figures/<name>.png of each figure
  log,      \* the lines printed so far
  pc,       \* the build_table call the table script is at (8: past the last)
  crashed,  \* the function an uncaught exception left, "" when none
  run,      \* the number of this start of the table script
  faults,   \* the I/O failures the environment injected
  todo,     \* the functions still to be called on their own
  done      \* the functions that were called on their own

vars == <<raw, csv, tex, png, log, pc, crashed, run, faults, todo, done>>

TableFn(k) ==
  CASE k = 1 -> "build_table1" [] k = 2 -> "build_table2" [] k = 3 -> "build_table3"
    [] k = 4 -> "build_table4" [] k = 5 -> "build_table5" [] k = 6 -> "build_table6"
    [] OTHER -> "build_table7"

FigureFn(n) ==
  CASE n = 1 -> "make_figure1" [] n = 2 -> "make_figure2" [] OTHER -> "make_figure3"

TableFns == {TableFn(k) : k \in TableIds}

FigureFns == {FigureFn(n) : n \in FigureIds}

Fault(fn, kind) == [run |-> run, fn |-> fn, kind |-> kind]

CanFail == Cardinality(faults) < MaxFailures

\* the frame build_tablek reads, and the frame it hands to save_table
Input(k) == read_csv(raw[k])

Frame(k) == BuildFrame(k, Input(k))

\* pd.read_csv raises on a missing file; build_table7 may raise in astype
Readable(k) == raw[k].exists

Builds(k) == Readable(k) /\ ~BuildRaises(k, Input(k))

\* AfterTexFailure with the fault of a missing try/except
AfterTexFailure_uncaught(k) == TableFn(k)

\* AfterFailure with the fault of a handler that swallows the exception
AfterFailure_swallowed(k) == ""

\* what the exception of a failed LaTeX write leaves in crashed: save_table
\* catches it (lines 18-22), so nothing
AfterTexFailure(k) == ""

\* what an exception of read_csv, of the transform or of to_csv leaves in
\* crashed: nothing catches it, so the function it unwinds
AfterFailure(k) == TableFn(k)

\* ------------------------------------------------------------------------
\* build_tablek, as called at time now: every way it can end
\* ------------------------------------------------------------------------
\* read, transform, CSV and LaTeX written, "Saved" printed
TableSaved(k, now) ==
  /\ Builds(k)
  /\ LET df == Frame(k)
     IN /\ csv' = WriteCsv(csv, k, df, now)
        /\ tex' = WriteTex(tex, k, df, now)
  /\ log' = Append(log, Saved(k))
  /\ crashed' = ""
  /\ UNCHANGED <<raw, png, faults>>

\* CSV written, the LaTeX write raises: caught, printed, then "Saved"
TableTexFailed(k, now) ==
  /\ CanFail
  /\ Builds(k)
  /\ \E how \in TexFailures :
       /\ tex' = FailTex(tex, k, how, now)
       /\ faults' = faults \cup {Fault(TableFn(k), how)}
  /\ csv' = WriteCsv(csv, k, Frame(k), now)
  /\ crashed' = AfterTexFailure(k)
  /\ log' = IF crashed' = "" THEN log \o <<CouldNot(k), Saved(k)>> ELSE log
  /\ UNCHANGED <<raw, png>>

\* the raw file is missing: read_csv raises before anything is written
TableReadFailed(k) ==
  /\ ~Readable(k)
  /\ crashed' = AfterFailure(k)
  /\ UNCHANGED <<raw, csv, tex, png, log, faults>>

\* build_table7: astype(float) raises before save_table is called
TableRaised(k) ==
  /\ Readable(k)
  /\ BuildRaises(k, Input(k))
  /\ crashed' = AfterFailure(k)
  /\ UNCHANGED <<raw, csv, tex, png, log, faults>>

\* to_csv raises: the LaTeX write is not reached, nothing is printed
TableCsvFailed(k) ==
  /\ CanFail
  /\ Builds(k)
  /\ faults' = faults \cup {Fault(TableFn(k), "csv")}
  /\ crashed' = AfterFailure(k)
  /\ UNCHANGED <<raw, csv, tex, png, log>>

\* make_figuren: read, derive the points, save the PNG
FigureSaved(n, now) ==
  /\ Readable(FigureInput(n))
  /\ png' = WritePng(png, n, FigurePoints(n, Input(FigureInput(n))), now)
  /\ crashed' = ""
  /\ UNCHANGED <<raw, csv, tex, log, faults>>

\* make_figuren: read_csv or savefig raises, nothing catches it
FigureFailed(n) ==
  /\ \/ ~Readable(FigureInput(n)) /\ UNCHANGED faults
     \/ /\ Readable(FigureInput(n))
        /\ CanFail
        /\ faults' = faults \cup {Fault(FigureFn(n), "png")}
  /\ crashed' = FigureFn(n)
  /\ UNCHANGED <<raw, csv, tex, png, log>>

\* ------------------------------------------------------------------------
\* build_all_tables.py run as a script (lines 73-80)
\* ------------------------------------------------------------------------
AtCall(k) == pc = k /\ crashed = ""

\* an uncaught exception ends the script; otherwise the next call follows
Advance(k) ==
  /\ pc' = IF crashed' = "" THEN k + 1 ELSE k
  /\ UNCHANGED <<run, todo, done>>

ScriptSaved == \E k \in TableIds : AtCall(k) /\ TableSaved(k, run) /\ Advance(k)

ScriptTexFailed == \E k \in TableIds : AtCall(k) /\ TableTexFailed(k, run) /\ Advance(k)

ScriptReadFailed == \E k \in TableIds : AtCall(k) /\ TableReadFailed(k) /\ Advance(k)

ScriptRaised == \E k \in TableIds : AtCall(k) /\ TableRaised(k) /\ Advance(k)

ScriptCsvFailed == \E k \in TableIds : AtCall(k) /\ TableCsvFailed(k) /\ Advance(k)

\* the script has ended, normally or by an exception, and is started again
Rerun ==
  /\ pc = 8 \/ crashed # ""
  /\ run < MaxRuns
  /\ run' = run + 1
  /\ pc' = 1
  /\ crashed' = ""
  /\ log' = <<>>
  /\ UNCHANGED <<raw, csv, tex, png, faults, todo, done>>

NoOutputs ==
  /\ csv = [k \in TableIds |-> Absent]
  /\ tex = [k \in TableIds |-> Absent]
  /\ png = [n \in FigureIds |-> Absent]
  /\ log = <<>>
  /\ crashed = ""
  /\ run = 1
  /\ faults = {}

Init ==
  /\ raw \in RawDirs
  /\ NoOutputs
  /\ pc = 1
  /\ todo = {}
  /\ done = {}

Next ==
  \/ ScriptSaved
  \/ ScriptTexFailed
  \/ ScriptReadFailed
  \/ ScriptRaised
  \/ ScriptCsvFailed
  \/ Rerun

Spec == Init /\ [][Next]_vars

\* ------------------------------------------------------------------------
\* The functions called on their own, in any order
\* ------------------------------------------------------------------------
AllFns == TableFns \cup FigureFns

\* the function is still to be called; the call is a process of its own
Pending(fn) == fn \in todo

Called(fn) ==
  /\ todo' = todo \ {fn}
  /\ done' = done \cup {fn}
  /\ UNCHANGED <<pc, run>>

AloneSaved ==
  \E k \in TableIds : Pending(TableFn(k)) /\ TableSaved(k, run) /\ Called(TableFn(k))

AloneTexFailed ==
  \E k \in TableIds : Pending(TableFn(k)) /\ TableTexFailed(k, run) /\ Called(TableFn(k))

AloneReadFailed ==
  \E k \in TableIds : Pending(TableFn(k)) /\ TableReadFailed(k) /\ Called(TableFn(k))

AloneRaised ==
  \E k \in TableIds : Pending(TableFn(k)) /\ TableRaised(k) /\ Called(TableFn(k))

AloneCsvFailed ==
  \E k \in TableIds : Pending(TableFn(k)) /\ TableCsvFailed(k) /\ Called(TableFn(k))

AloneFigureSaved ==
  \E n \in FigureIds : Pending(FigureFn(n)) /\ FigureSaved(n, run) /\ Called(FigureFn(n))

AloneFigureFailed ==
  \E n \in FigureIds : Pending(FigureFn(n)) /\ FigureFailed(n) /\ Called(FigureFn(n))

NextAlone ==
  \/ AloneSaved
  \/ AloneTexFailed
  \/ AloneReadFailed
  \/ AloneRaised
  \/ AloneCsvFailed
  \/ AloneFigureSaved
  \/ AloneFigureFailed

\* up to MaxCalls of the ten functions are called, in any order
InitAny ==
  /\ raw \in AnyDirs
  /\ NoOutputs
  /\ pc = 0
  /\ todo \in {S \in SUBSET AllFns : Cardinality(S) <= MaxCalls}
  /\ done = {}

SpecAnyOrder == InitAny /\ [][NextAlone]_vars

RawOf(fn) ==
  CASE fn = "make_figure1" -> 1
    [] fn = "make_figure2" -> 8
    [] fn = "make_figure3" -> 3
    [] OTHER -> CHOOSE k \in TableIds : TableFn(k) = fn

\* one function is called on its own, on a file drawn for it (or on none)
InitBuild ==
  /\ NoOutputs
  /\ pc = 0
  /\ \E fn \in AllFns :
       /\ todo = {fn}
       /\ done = {}
       /\ \E file \in RichFiles(fn, RawOf(fn)) \cup {NoFile} :
            raw = [k \in RawIds |-> IF k = RawOf(fn) THEN file ELSE BaseRaw(k)]

SpecBuild == InitBuild /\ [][NextAlone]_vars

\* ------------------------------------------------------------------------
\* Properties of the table builds (checked under SpecBuild)
\* ------------------------------------------------------------------------
Written(file) == file.mtime # 0

\* two cells hold the same value: both missing, the same number, or equal
ValueEq(a, b) == a = b \/ (IsNa(a) /\ IsNa(b)) \/ NumEq(a, b)

\* b, or what coercing b to a number gives
SameOrCoerced(a, b) == ValueEq(a, b) \/ ValueEq(a, to_numeric(b))

\* out holds the rows of in, each exactly once, cells at most coerced
RowsPreserved(out, in) ==
  /\ Len(out.rows) = Len(in.rows)
  /\ out.cols = in.cols
  /\ {out.rows[i].idx : i \in 1..Len(out.rows)} = 0..(Len(in.rows) - 1)
  /\ \A i \in 1..Len(out.rows) :
       \A c \in ColSet(in.cols) :
         SameOrCoerced(out.rows[i].v[c], in.rows[out.rows[i].idx + 1].v[c])

\* C1: for each of the seven builds, the frame handed to save_table (and so
\* the CSV written) has as many rows as the file read, and its rows are the
\* input rows, each exactly once, with cells at most coerced: no row is
\* dropped, duplicated or merged, whatever its sort key.
C1_RowsPreserved ==
  \A k \in TableIds :
    Written(csv[k]) =>
      LET out == Frame(k)
          in == Input(k)
      IN /\ RowsPreserved(out, in)
         /\ Len(csv[k].rows) = Len(raw[k].rows)
         /\ \A i \in 1..Len(csv[k].rows) : csv[k].rows[i] = out.rows[i].v

\* C1 witness: build_table3 was called on three rows, one with an
\* unparseable year and one with no year, and it reordered them
C1_Witness ==
  /\ Written(csv[3])
  /\ Len(raw[3].rows) = 3
  /\ raw[3].rows[1]["Year"] = <<"x">>
  /\ raw[3].rows[2]["Year"] = <<"2", "0", "1", "5">>
  /\ raw[3].rows[3]["Year"] = <<"2", "0", "0", "8">>
  /\ LET out == Frame(3) IN out.rows[1].idx = 2 /\ out.rows[3].idx = 0

\* C2: in the CSV of build_table1 the rows are in ascending order of
\* Dataset, and the rows of one dataset are in descending order of the
\* accuracy as a number (compared where both values are present).
C2_Table1Sorted ==
  Written(csv[1]) =>
    \A i, j \in 1..Len(csv[1].rows) :
      i < j =>
        LET a == csv[1].rows[i]
            b == csv[1].rows[j]
        IN /\ ~CellLess(b["Dataset"], a["Dataset"])
           /\ a["Accuracy (%)"].k # "str"
           /\ (ValueEq(a["Dataset"], b["Dataset"])
                 /\ IsNum(a["Accuracy (%)"]) /\ IsNum(b["Accuracy (%)"]))
                => ~NumLess(a["Accuracy (%)"], b["Accuracy (%)"])

\* C2 witness: build_table1 was called on (B, 9), (A, 9), (A, 95.5) and
\* wrote (A, 95.5), (A, 9), (B, 9)
C2_Witness ==
  /\ Written(csv[1])
  /\ Len(raw[1].rows) = 3
  /\ raw[1].rows[1]["Dataset"] = <<"B">>
  /\ raw[1].rows[2]["Dataset"] = <<"A">>
  /\ raw[1].rows[2]["Accuracy (%)"] = <<"9">>
  /\ raw[1].rows[3]["Dataset"] = <<"A">>
  /\ raw[1].rows[3]["Accuracy (%)"] = <<"9", "5", ".", "5">>
  /\ NumEq(csv[1].rows[1]["Accuracy (%)"], Num(955, 1, TRUE))
  /\ csv[1].rows[3]["Dataset"] = Str(<<"B">>)

\* a four-digit year: the pattern \d{4}
YearPattern ==
  LET digit == {Digits[i] : i \in 1..Len(Digits)} IN <<digit, digit, digit, digit>>

\* the first four-digit year in the text, as a number; NaN when it has none
Year4(t) == to_numeric(extract(t, YearPattern))

\* C3: in the CSV of build_table7 the rows whose Era holds a four-digit
\* year are in ascending order of that year (the first such match), and the
\* helper column era_numeric is not in the file.
C3_EraSortedByYear ==
  Written(csv[7]) =>
    /\ "era_numeric" \notin ColSet(csv[7].cols)
    /\ \A i, j \in 1..Len(csv[7].rows) :
         LET a == Year4(ToStr(csv[7].rows[i]["Era"]))
             b == Year4(ToStr(csv[7].rows[j]["Era"]))
         IN (i < j /\ IsNum(a) /\ IsNum(b)) => ~NumLess(b, a)

\* ------------------------------------------------------------------------
\* Properties of the figure builds (checked under SpecBuild)
\* ------------------------------------------------------------------------
Units == {"B", "G", "M"}

\* the text is a number followed by the unit letter u
UnitForm(t, u) == EndsWith(t, u) /\ IsNumeric(DropLast(t))

\* the text, trimmed and in upper case, ends in no unit letter
NoUnit(t) ==
  LET u == Upper(Strip(t)) IN u = <<>> \/ u[Len(u)] \notin Units

\* the text, trimmed and in upper case, is neither a number nor a number
\* followed by one unit letter
Malformed(t) ==
  LET u == Upper(Strip(t))
  IN /\ ~IsNumeric(u)
     /\ ~(u # <<>> /\ u[Len(u)] \in Units /\ IsNumeric(DropLast(u)))

\* a thousand times the number x
Times1000(x) == Num(x.m * 1000, x.s, TRUE)

\* the function was called on a readable file and no I/O failure occurred
CalledCleanly(fn) == fn \in done /\ Readable(RawOf(fn)) /\ faults = {}

\* C4: in the points of make_figure1, a FLOPs text that is a magnitude
\* followed by "B" or "G" gives the magnitude, one followed by "M" gives the
\* magnitude divided by 1000 ("4.1B" gives 4.1, "7G" gives 7.0, "1200M"
\* gives 1.2), and a malformed text gives a missing value; no such cell
\* makes the call raise.
C4_FlopsConversion ==
  /\ CalledCleanly("make_figure1") => Written(png[1]) /\ crashed = ""
  /\ Written(png[1]) =>
       /\ Len(png[1].rows) = Len(raw[1].rows)
       /\ \A i \in 1..Len(png[1].rows) :
            LET t == raw[1].rows[i]["FLOPs"]
                x == png[1].rows[i].x
            IN /\ (UnitForm(t, "B") \/ UnitForm(t, "G"))
                    => NumEq(x, ParseNum(DropLast(t)))
               /\ UnitForm(t, "M")
                    => IsNum(x) /\ NumEq(Times1000(x), ParseNum(DropLast(t)))
               /\ t = <<"4", ".", "1", "B">> => x = Num(41, 1, TRUE)
               /\ t = <<"7", "G">> => x = Num(7, 0, TRUE)
               /\ t = <<"1", "2", "0", "0", "M">> => x = Num(12, 1, TRUE)
               /\ Malformed(t) => IsNa(x)

\* C4 witness: make_figure1 was called on the FLOPs text "1200M" and
\* plotted it at x = 1.2
C4_Witness ==
  /\ Written(png[1])
  /\ raw[1].rows[1]["FLOPs"] = <<"1", "2", "0", "0", "M">>
  /\ png[1].rows[1].x = Num(12, 1, TRUE)

\* C5, as stated: in the points of make_figure1, a FLOPs value with no unit
\* suffix, or one that cannot be parsed, gives a missing value.
C5_UnsuffixedIsMissing ==
  Written(png[1]) =>
    \A i \in 1..Len(png[1].rows) :
      LET t == raw[1].rows[i]["FLOPs"]
      IN (NoUnit(t) \/ Malformed(t)) => IsNa(png[1].rows[i].x)

\* C5, amended: in the points of make_figure1, a FLOPs value with no unit
\* suffix that is a number gives that number unchanged (it is taken as
\* billions); a value that cannot be parsed gives a missing value.
C5_UnsuffixedIsBillions ==
  Written(png[1]) =>
    \A i \in 1..Len(png[1].rows) :
      LET t == raw[1].rows[i]["FLOPs"]
          x == png[1].rows[i].x
      IN /\ (NoUnit(t) /\ IsNumeric(Strip(t))) => NumEq(x, ParseNum(Strip(t)))
         /\ (NoUnit(t) /\ ~IsNumeric(Strip(t))) => IsNa(x)
         /\ Malformed(t) => IsNa(x)

\* C5 witness: make_figure1 was called on the bare FLOPs text "4.1" and
\* plotted it at x = 4.1
C5_Witness ==
  /\ Written(png[1])
  /\ raw[1].rows[1]["FLOPs"] = <<"4", ".", "1">>
  /\ png[1].rows[1].x = Num(41, 1, TRUE)

\* C10: in the points of make_figure3 the sample count is the Total Samples
\* text with its commas removed, as a number ("12,345" gives 12345); a
\* non-numeric or empty cell gives a missing value; every row is kept and
\* the call does not raise.
C10_SampleCount ==
  /\ CalledCleanly("make_figure3") => Written(png[3]) /\ crashed = ""
  /\ Written(png[3]) =>
       /\ Len(png[3].rows) = Len(raw[3].rows)
       /\ \A i \in 1..Len(png[3].rows) :
            LET t == raw[3].rows[i]["Total Samples"]
                x == png[3].rows[i].x
            IN /\ t = <<"1", "2", ",", "3", "4", "5">> => NumEq(x, Num(12345, 0, FALSE))
               /\ IsNumeric(RemoveChar(t, ",")) => NumEq(x, ParseNum(RemoveChar(t, ",")))
               /\ ~IsNumeric(RemoveChar(t, ",")) => IsNa(x)
               /\ png[3].rows[i].label = Str(raw[3].rows[i]["Dataset"])

\* C10 witness: make_figure3 was called on "12,345" and on an empty cell,
\* and plotted the first at x = 12345 and kept the second as missing
C10_Witness ==
  /\ Written(png[3])
  /\ Len(raw[3].rows) = 2
  /\ raw[3].rows[1]["Total Samples"] = <<"1", "2", ",", "3", "4", "5">>
  /\ raw[3].rows[2]["Total Samples"] = <<>>
  /\ NumEq(png[3].rows[1].x, Num(12345, 0, FALSE))
  /\ IsNa(png[3].rows[2].x)

\* ------------------------------------------------------------------------
\* Properties of the table script (checked under Spec)
\* ------------------------------------------------------------------------
InLog(line) == \E i \in 1..Len(log) : log[i] = line

\* this step injects a failure of the LaTeX write of table k
TexFaultStep(k) ==
  \E how \in TexFailures : Fault(TableFn(k), how) \in faults' \ faults

\* this step injects a failure of the CSV write of table k
CsvFaultStep(k) == Fault(TableFn(k), "csv") \in faults' \ faults

\* the script has run past its last call without an exception
Finished == pc = 8 /\ crashed = ""

\* C6: save_table writes the CSV before it attempts the LaTeX file, and a
\* failure of the LaTeX write is caught and printed: the run is not ended,
\* the CSV just written for that table is in place, and the script goes on
\* to the next build, so that a run that reaches its end has written the
\* CSV of every table.
C6_LatexFailureIsCaught ==
  /\ [][\A k \in TableIds :
          /\ TexFaultStep(k) =>
               /\ csv'[k] = to_csv(Frame(k), run)
               /\ crashed' = ""
               /\ pc' = k + 1
               /\ log' = log \o <<CouldNot(k), Saved(k)>>
          /\ tex'[k] # tex[k] => csv'[k] = to_csv(Frame(k), run)]_vars
  /\ [](Finished => \A k \in TableIds : csv[k] = to_csv(Frame(k), run))

\* C6 witness: rendering the LaTeX of table 1 failed in this run, which
\* left an empty table1 .tex, and the run still wrote all seven CSVs
C6_Witness ==
  /\ Finished
  /\ Fault("build_table1", "render") \in faults
  /\ tex[1] = EmptyFile(run)
  /\ InLog(CouldNot(1))
  /\ \A k \in TableIds : csv[k].mtime = run /\ InLog(Saved(k))

\* C7: a CSV that a later run of the script writes again, the raw files
\* being the same, has the content the earlier run left; a second run that
\* reaches its end has written every CSV again.
C7_RerunSameCsv ==
  /\ [][\A k \in TableIds :
          (Written(csv[k]) /\ csv'[k] # csv[k])
            => Content(csv'[k]) = Content(csv[k])]_vars
  /\ []((Finished /\ run > 1) => \A k \in TableIds : csv[k].mtime = run)

\* C7 witness: the second run has ended with no failure in either run and
\* every CSV carries the second run's time
C7_Witness ==
  /\ Finished
  /\ run = 2
  /\ faults = {}
  /\ \A k \in TableIds : csv[k].mtime = 2 /\ Len(csv[k].rows) = 2

RECURSIVE ScriptTables(_, _)
ScriptTables(fs, k) ==
  IF k > 7 \/ ~Readable(k) THEN fs
  ELSE LET in == Input(k)
       IN IF BuildRaises(k, in) THEN fs
          ELSE LET df == BuildFrame(k, in)
               IN ScriptTables([csv |-> WriteCsv(fs.csv, k, df, 1),
                                tex |-> WriteTex(fs.tex, k, df, 1)], k + 1)

\* the PNG files a failure-free run of the figure script leaves
RECURSIVE ScriptPng(_, _)
ScriptPng(files, n) ==
  IF n > 3 \/ ~Readable(FigureInput(n)) THEN files
  ELSE ScriptPng(WritePng(files, n, FigurePoints(n, Input(FigureInput(n))), 1), n + 1)

NoTables == [k \in TableIds |-> Absent]

NoFigures == [n \in FigureIds |-> Absent]

Rendered(file) == Written(file) /\ file.cols # <<>>

\* what the scripted runs leave, starting with no output file
ScriptedTables == ScriptTables([csv |-> NoTables, tex |-> NoTables], 1)

ScriptedFigures == ScriptPng(NoFigures, 1)

\* C8: the builds are independent. Whatever functions were called on their
\* own and in whatever order, each output file holds what the scripted run
\* leaves in it (for the files the scripted run gets to write), a file
\* whose function was not called is still absent, and a function called on
\* its own writes its file.
C8_OrderIndependent ==
  LET st == ScriptedTables
      sp == ScriptedFigures
  IN /\ \A k \in TableIds :
          /\ (Written(csv[k]) /\ Written(st.csv[k]))
               => Content(csv[k]) = Content(st.csv[k])
          /\ (Rendered(tex[k]) /\ Written(st.tex[k]))
               => Content(tex[k]) = Content(st.tex[k])
          /\ (Written(csv[k]) \/ Written(tex[k])) => TableFn(k) \in done
          /\ (TableFn(k) \in done /\ faults = {} /\ Builds(k)) => Written(csv[k])
     /\ \A n \in FigureIds :
          /\ (Written(png[n]) /\ Written(sp[n])) => Content(png[n]) = Content(sp[n])
          /\ Written(png[n]) => FigureFn(n) \in done

\* C8 witness: build_table7 was called before build_table1 and nothing
\* else; both CSVs hold what the scripted run writes
C8_Witness ==
  /\ done = {"build_table1", "build_table7"}
  /\ log = <<Saved(7), Saved(1)>>
  /\ Written(csv[1])
  /\ Written(csv[7])
  /\ csv[2] = Absent
  /\ Content(csv[7]) = Content(ScriptedTables.csv[7])

====
